---- MODULE Spec2Model ----
(***************************************************************************)
(* Model of the in-memory order execution engine:                          *)
(*   QueueWorker     (services/queueWorker.ts, in-memory version)          *)
(*   DatabaseService (services/database.ts)                                *)
(*   PubSub          (services/pubsub.ts)                                  *)
(*   the order-submission handler of server.ts                             *)
(*                                                                         *)
(* A pipeline suspends at its calls into the DEX router and the database;  *)
(* one step of the model is the completion of such a call together with    *)
(* everything processJob does before its next such call.  publishStatus    *)
(* emits synchronously, so the updates published between two calls belong  *)
(* to one step.  The .finally callback of processLoop runs in the          *)
(* microtask that follows the return of processJob and is part of the      *)
(* step that returns.                                                      *)
(* Amounts are fixed-point integers (tenths of a token); tolerances are    *)
(* exact rationals over TolDen, so binary floating-point rounding is not   *)
(* modelled.                                                               *)
(***************************************************************************)
EXTENDS Integers, Sequences, FiniteSets, TLC

\* ---------------------------------------------------------------- bounds
MaxJobs == 2
MaxSubs == 1
MaxRegs == 2
MaxKept == 2
MaxReceived == 3
MaxUnsubCalls == 2

\* configurations explored: MAX_CONCURRENT_ORDERS, MAX_RETRY_ATTEMPTS, NODE_ENV
Concurrencies == {1, 2}
RetryLimits == {1, 2}

\* ------------------------------------------------------- program constants
DefaultSlippage == 100
CapSlippage == 2000
TolDen == 10000
BackoffBase == 2
BackoffUnit == 1000

OrderIds == {"A", "B"}
\* undefined, for a string-valued and for a number-valued field
Undefined == "undefined"
NoNumber == 0 - 1
NoMessage == <<>>
NoError == "noerror"

Min(a, b) == IF a < b THEN a ELSE b

RECURSIVE Pow(_, _)
Pow(b, e) == IF e = 0 THEN 1 ELSE b * Pow(b, e - 1)

\* ------------------------------------------------------------ RouteExecutor
DexTypes == {"raydium", "meteora"}

RaydiumQuotes == { [dex |-> "raydium", price |-> 100, amountOut |-> 1000] }
MeteoraQuotes == { [dex |-> "meteora", price |-> 101, amountOut |-> 1004] }

\* RoutingDecision of types.ts; selectedQuote is the quote of selectedDex.
RoutingDecisions ==
  { [selectedDex |-> d, raydiumQuote |-> r, meteoraQuote |-> m] :
      d \in DexTypes, r \in RaydiumQuotes, m \in MeteoraQuotes }

\* no decision yet: the value of routingDecision before getBestRoute returns
NoQuote == [dex |-> "none", price |-> NoNumber, amountOut |-> NoNumber]
NoDecision == [selectedDex |-> "none", raydiumQuote |-> NoQuote, meteoraQuote |-> NoQuote]

SelectedQuote(rd) ==
  IF rd.selectedDex = "raydium" THEN rd.raydiumQuote ELSE rd.meteoraQuote

\* ExecutionResult of types.ts, as an executor can return it; "threw" stands
\* for a rejected promise.
ExecutionResults ==
  { [kind |-> "result", success |-> TRUE, txHash |-> "badtx", executedPrice |-> 90, amountOut |-> 900, error |-> Undefined],
    [kind |-> "result", success |-> TRUE, txHash |-> "goodtx", executedPrice |-> 99, amountOut |-> 995, error |-> Undefined],
    [kind |-> "result", success |-> TRUE, txHash |-> "notx", executedPrice |-> NoNumber, amountOut |-> NoNumber, error |-> Undefined],
    [kind |-> "result", success |-> FALSE, txHash |-> Undefined, executedPrice |-> NoNumber, amountOut |-> NoNumber, error |-> "Insufficient liquidity"],
    [kind |-> "threw", success |-> FALSE, txHash |-> Undefined, executedPrice |-> NoNumber, amountOut |-> NoNumber, error |-> "RPC node error"] }

\* successful results whose amounts lie on both sides of the tolerance
\* thresholds of the first attempts: 988 and 1000 around 1 % and 1.5 % of each
\* quote, 790 between the capped and the uncapped tolerance of a 15 % order
ProbeResults ==
  { [kind |-> "result", success |-> TRUE, txHash |-> "tx", executedPrice |-> 99,
     amountOut |-> a, error |-> Undefined] : a \in {790, 988, 1000} }

\* the router handed to the constructor: "arbitrary" may answer every call
\* in every way; "stub" always selects raydium and answers executeSwap with
\* a small fill, a large fill or a rejection; "probe" selects either DEX and
\* answers executeSwap with one of ProbeResults
RouterKinds == {"arbitrary", "stub", "probe"}

RouterDecisions(router) ==
  IF router = "stub" THEN {rd \in RoutingDecisions : rd.selectedDex = "raydium"}
  ELSE RoutingDecisions

RouterResults(router) ==
  IF router = "stub"
  THEN {res \in ExecutionResults : res.txHash \in {"goodtx", "badtx"} \/ res.kind = "threw"}
  ELSE IF router = "probe" THEN ProbeResults
  ELSE ExecutionResults

NoResult ==
  [kind |-> "none", success |-> FALSE, txHash |-> Undefined, executedPrice |-> NoNumber,
   amountOut |-> NoNumber, error |-> Undefined]

\* ---------------------------------------------------------------- slippage
\* orderData.slippage ?? 0.01, in units of 1/TolDen
BaseSlippage(slippage) == IF slippage = NoNumber THEN DefaultSlippage ELSE slippage

\* a tolerance that grows by half the base per attempt without a cap
EffectiveSlippage2Uncapped(slippage, attempts) ==
  BaseSlippage(slippage) * (2 + attempts)

\* Math.min(0.2, baseSlippage * (1 + attempts * 0.5)) as the numerator of a
\* fraction over 2 * TolDen
EffectiveSlippage2(slippage, attempts) ==
  Min(2 * CapSlippage, BaseSlippage(slippage) * (2 + attempts))

\* NOT (typeof amountOut !== 'number' || amountOut < expected * (1 - eff))
WithinSlippage(amountOut, expected, slippage, attempts) ==
  /\ amountOut # NoNumber
  /\ amountOut * 2 * TolDen >= expected * (2 * TolDen - EffectiveSlippage2(slippage, attempts))

\* ------------------------------------------------------------------- state
VARIABLES
  dexRouter,     \* QueueWorker.dexRouter: the kind of router installed
  concurrency,   \* QueueWorker.concurrency
  maxRetries,    \* QueueWorker.maxRetries
  production,    \* process.env.NODE_ENV === 'production'
  enabled,       \* DatabaseService.enabled
  memOrders,     \* DatabaseService.inMemoryOrders: first row found per orderId
  dbOrders,      \* rows of the SQL table orders, per order_id
  jobs,          \* every job object created by enqueue, in creation order
  queue,         \* QueueWorker.queue, as indices into jobs
  running,       \* QueueWorker.running
  timers,        \* pending setTimeout(() => queue.push(job), delay) callbacks
  subs,          \* PubSub listeners per topic order:<orderId>, in registration order
  events,        \* history: status updates published by the latest run of each job
  execLog,       \* history: executeSwap calls made by the latest run of each job
  calls,         \* history: router calls per job object, over all its runs
  delays,        \* history: backoff delays scheduled per job object
  kept,          \* unsubscribe functions returned by subscribeOrder that a client holds
  received,      \* the array the recording handlers push the calls they get to
  lastPublish,   \* history: the latest publishOrder call made by a client
  closed         \* history: QueueWorker.close() has been called and has returned

vars == <<dexRouter, concurrency, maxRetries, production, enabled, memOrders, dbOrders,
          jobs, queue, running, timers, subs, events, execLog, calls, delays,
          kept, received, lastPublish, closed>>

\* what no step of the pipelines, the store or the PubSub assigns: the
\* settings read by the constructors, and whether close() has returned
config == <<dexRouter, concurrency, maxRetries, production, closed>>

JobIds == 1..Len(jobs)

\* positions of processJob at which the pipeline of a job is executing
ExecutingPcs ==
  {"getBestRoute", "dbRouting", "dbBuilding", "dbSubmitted", "executeSwap",
   "fallbackSwap", "dbConfirmed", "incrementRetryCount", "dbFailed"}

Executing(j) == jobs[j].pc \in ExecutingPcs

\* ---------------------------------------------------------- DatabaseService
RowFields == {"status", "selectedDex", "raydiumPrice", "meteoraPrice",
              "executedPrice", "amountOut", "txHash", "errorMessage", "retryCount"}

\* the row createOrder writes: status 'pending', retry count 0
\* the value an absent field has, by the type of the field
UndefinedOf(f) ==
  IF f \in {"raydiumPrice", "meteoraPrice", "executedPrice", "amountOut", "retryCount"}
  THEN NoNumber
  ELSE IF f = "errorMessage" THEN NoMessage ELSE Undefined

NoRow == [f \in RowFields |-> IF f = "status" THEN "norow" ELSE UndefinedOf(f)]

NewRow ==
  [f \in RowFields |->
     IF f = "status" THEN "pending" ELSE IF f = "retryCount" THEN 0 ELSE UndefinedOf(f)]

NoPatch == [f \in {} |-> Undefined]

\* the assignments updateOrderStatus makes to a row: status always, every
\* field of additionalData that is given
ApplyUpdate(row, status, patch) ==
  [f \in RowFields |->
     IF f = "status" THEN status
     ELSE IF f \in DOMAIN patch /\ patch[f] # UndefinedOf(f) THEN patch[f]
     ELSE row[f]]

StoreReply(err, en, mem, db) ==
  [threw |-> err # NoError, error |-> err, enabled |-> en, mem |-> mem, db |-> db]

\* createOrder; dbOk: the INSERT succeeds (it fails on a lost connection and
\* on the UNIQUE constraint of order_id)
CreateOrder(id, dbOk) ==
  IF ~enabled
  THEN StoreReply(NoError, enabled,
                  IF memOrders[id] = NoRow THEN [memOrders EXCEPT ![id] = NewRow] ELSE memOrders,
                  dbOrders)
  ELSE IF dbOk /\ dbOrders[id] = NoRow
       THEN StoreReply(NoError, enabled, memOrders, [dbOrders EXCEPT ![id] = NewRow])
       ELSE StoreReply("query failed", enabled, memOrders, dbOrders)

\* updateOrderStatus; dbOk: the UPDATE query succeeds
UpdateOrderStatus(id, status, patch, dbOk) ==
  IF ~enabled
  THEN IF memOrders[id] = NoRow
       THEN StoreReply("Order not found", enabled, memOrders, dbOrders)
       ELSE StoreReply(NoError, enabled,
                       [memOrders EXCEPT ![id] = ApplyUpdate(@, status, patch)], dbOrders)
  ELSE IF dbOk
       THEN StoreReply(NoError, enabled, memOrders,
                       IF dbOrders[id] = NoRow THEN dbOrders
                       ELSE [dbOrders EXCEPT ![id] = ApplyUpdate(@, status, patch)])
       ELSE IF ~production
            THEN StoreReply(NoError, FALSE,
                            IF memOrders[id] = NoRow THEN memOrders
                            ELSE [memOrders EXCEPT ![id] = ApplyUpdate(@, status, patch)],
                            dbOrders)
            ELSE StoreReply("query failed", enabled, memOrders, dbOrders)

\* an incrementRetryCount that answers and leaves the counter as it is
IncrementRetryCountIdle(id, dbOk) ==
  StoreReply(NoError, enabled, memOrders, dbOrders)

\* incrementRetryCount; dbOk: the UPDATE ... RETURNING query succeeds.  With no
\* matching row result.rows[0] is undefined and reading retry_count throws.
IncrementRetryCount(id, dbOk) ==
  IF ~enabled
  THEN IF memOrders[id] = NoRow
       THEN StoreReply("Order not found", enabled, memOrders, dbOrders)
       ELSE StoreReply(NoError, enabled,
                       [memOrders EXCEPT ![id].retryCount = @ + 1], dbOrders)
  ELSE IF ~dbOk
       THEN StoreReply("query failed", enabled, memOrders, dbOrders)
       ELSE IF dbOrders[id] = NoRow
            THEN StoreReply("TypeError", enabled, memOrders, dbOrders)
            ELSE StoreReply(NoError, enabled, memOrders,
                            [dbOrders EXCEPT ![id].retryCount = @ + 1])

\* getOrder: the row the active store holds for id
GetOrder(id) == IF enabled THEN dbOrders[id] ELSE memOrders[id]

\* outcomes of a query: it can fail only when it is sent to the database
DbOutcomes == IF enabled THEN {TRUE, FALSE} ELSE {TRUE}

StoreBecomes(reply) ==
  /\ enabled' = reply.enabled
  /\ memOrders' = reply.mem
  /\ dbOrders' = reply.db

\* ------------------------------------------------------------------ PubSub
\* guarded: the handler of the upgraded POST connection (send inside try/catch);
\* unguarded: the handler of GET /ws (send outside any try/catch)
Handlers == {"guarded", "unguarded"}

\* handlers that push every message they are called with, together with
\* their own name, to one shared array and return
Recorders == {"r1", "r2"}

\* the positions among the listeners of order:<id> of the handlers that can throw
ThrowerPositions(id) == {k \in 1..Len(subs[id]) : subs[id][k] = "unguarded"}

\* EventEmitter.emit calls the listeners in order and lets a listener's
\* exception propagate to the caller of publishOrder
CanThrow(id) == ThrowerPositions(id) # {}

\* the ways n consecutive publishOrder calls for id can go: all n return, or
\* the k-th is the first in which a listener throws, the one at position at
PublishOutcomes(id, n) ==
  {[count |-> n, threw |-> FALSE, at |-> 0]} \cup
  {[count |-> k, threw |-> TRUE, at |-> p] : k \in 1..n, p \in ThrowerPositions(id)}

\* the recording handlers one emit for id calls, in the order of the calls:
\* all listeners of the topic when at = 0, those before position at when the
\* listener at that position throws
Invoked(id, at) ==
  SelectSeq(SubSeq(subs[id], 1, IF at = 0 THEN Len(subs[id]) ELSE at - 1),
            LAMBDA h : h \in Recorders \cup {"guarded"})

\* what those handlers push to the shared array
Pushed(id, msg, at) ==
  [k \in 1..Len(Invoked(id, at)) |->
     [handler |-> Invoked(id, at)[k], orderId |-> id, update |-> msg]]

\* what the recording handlers push during the publishOrder calls for the
\* messages list[k], list[k + 1], ... of an outcome out
RECURSIVE Deliveries(_, _, _, _)
Deliveries(id, list, out, k) ==
  IF k > out.count THEN <<>>
  ELSE Pushed(id, list[k], IF out.threw /\ k = out.count THEN out.at ELSE 0)
       \o Deliveries(id, list, out, k + 1)

\* subscribeOrder: on(topic, handler)
SubscribeOrder(id, h) ==
  /\ Len(subs[id]) < MaxSubs
  /\ subs' = [subs EXCEPT ![id] = Append(@, h)]
  /\ UNCHANGED <<config, enabled, memOrders, dbOrders, jobs, queue, running, timers,
                 events, execLog, calls, delays, kept, received, lastPublish>>

\* index of the most recently added listener equal to h, 0 when there is none
LastIndexOf(seq, h) ==
  IF \E k \in 1..Len(seq) : seq[k] = h
  THEN CHOOSE k \in 1..Len(seq) : seq[k] = h /\ \A m \in (k + 1)..Len(seq) : seq[m] # h
  ELSE 0

RemoveAt(seq, k) == SubSeq(seq, 1, k - 1) \o SubSeq(seq, k + 1, Len(seq))

\* the function subscribeOrder returns: off(topic, handler) removes the most
\* recently added instance of the listener, and nothing when there is none
Unsubscribe(id, h) ==
  /\ subs[id] # <<>>
  /\ subs' = [subs EXCEPT ![id] =
                IF LastIndexOf(@, h) = 0 THEN @ ELSE RemoveAt(@, LastIndexOf(@, h))]
  /\ UNCHANGED <<config, enabled, memOrders, dbOrders, jobs, queue, running, timers,
                 events, execLog, calls, delays, kept, received, lastPublish>>

\* off(topic, handler) on the listeners seq of a topic
Off(seq, h) == IF LastIndexOf(seq, h) = 0 THEN seq ELSE RemoveAt(seq, LastIndexOf(seq, h))

worker == <<config, enabled, memOrders, dbOrders, jobs, queue, running, timers,
            events, execLog, calls, delays>>

\* subscribeOrder by a client that holds on to the function it returns
SubscribeKeeping(id, h) ==
  /\ Len(subs[id]) < MaxRegs
  /\ Len(kept) < MaxKept
  /\ subs' = [subs EXCEPT ![id] = Append(@, h)]
  /\ kept' = Append(kept, [orderId |-> id, handler |-> h, calls |-> 0])
  /\ UNCHANGED <<worker, received, lastPublish>>

\* a call of the k-th function held: () => this.off(topic, handler)
CallKept(k) ==
  /\ k \in 1..Len(kept)
  /\ kept[k].calls < MaxUnsubCalls
  /\ subs' = [subs EXCEPT ![kept[k].orderId] = Off(@, kept[k].handler)]
  /\ kept' = [kept EXCEPT ![k].calls = @ + 1]
  /\ UNCHANGED <<worker, received, lastPublish>>

\* no publishOrder call made by a client yet
NoPublish ==
  [orderId |-> "none", update |-> [status |-> "none", data |-> [f \in {} |-> "undefined"]],
   listeners |-> <<>>, before |-> 0]

\* the messages clients publish
Updates ==
  { [status |-> "confirmed", data |-> [f \in {} |-> "undefined"]],
    [status |-> "failed", data |-> [f \in {} |-> "undefined"]] }

\* publishOrder(orderId, message) called by a client: emit(topic, message)
PublishOrder(id, msg) ==
  /\ Len(received) < MaxReceived
  /\ \E out \in PublishOutcomes(id, 1) :
       received' = received \o Deliveries(id, <<msg>>, out, 1)
  /\ lastPublish' = [orderId |-> id, update |-> msg, listeners |-> subs[id],
                     before |-> Len(received)]
  /\ UNCHANGED <<worker, subs, kept>>

\* ------------------------------------------------------------- QueueWorker
\* orderData.slippage of the orders submitted, in units of 1/TolDen
OrderSlippages == {100}

\* z.enum(['market', 'limit', 'sniper'])
SchemaOrderTypes == {"market", "limit", "sniper"}

\* CreateOrderSchema.parse(body) returns the order data; it throws on an
\* order type outside the enum and on a slippage outside 0..1 (slippage is
\* optional)
Parses(body) ==
  /\ body.orderType \in SchemaOrderTypes
  /\ body.slippage = NoNumber \/ (0 <= body.slippage /\ body.slippage <= TolDen)

\* the order data of a market order with the given slippage
MarketOrder(slip) == [orderType |-> "market", slippage |-> slip]

NewJob(id, orderData) ==
  [orderId |-> id, orderType |-> orderData.orderType, slippage |-> orderData.slippage,
   attempts |-> 0, triedFallback |-> FALSE,
   pc |-> "queued", runs |-> 0, decision |-> NoDecision, outcome |-> NoResult,
   error |-> NoError]

Event(status, data) == [status |-> status, data |-> data]

NoData == [f \in {} |-> Undefined]

\* the call did not deliver a successful result: rejected or success false
ExecFailed(res) == res.kind = "threw" \/ ~res.success

\* passed: executeSwap calls whose result passed the slippage check;
\* late: executeSwap calls made after one had passed
NoCalls == [route |-> 0, exec |-> 0, fallback |-> 0, execFailed |-> 0, passed |-> 0, late |-> 0]

store == <<enabled, memOrders, dbOrders>>

listeners == <<subs, kept, lastPublish>>

\* an enqueue that puts the new job in front of the pending ones
EnqueueAtHead(id, orderData) ==
  /\ jobs' = Append(jobs, NewJob(id, orderData))
  /\ queue' = <<Len(jobs) + 1>> \o queue
  /\ events' = Append(events, <<>>)
  /\ execLog' = Append(execLog, <<>>)
  /\ calls' = Append(calls, NoCalls)
  /\ delays' = Append(delays, <<>>)

\* enqueue: queue.push({ orderId, orderData, attempts: 0 })
Enqueue(id, orderData) ==
  /\ jobs' = Append(jobs, NewJob(id, orderData))
  /\ queue' = Append(queue, Len(jobs) + 1)
  /\ events' = Append(events, <<>>)
  /\ execLog' = Append(execLog, <<>>)
  /\ calls' = Append(calls, NoCalls)
  /\ delays' = Append(delays, <<>>)

\* POST /api/orders/execute with a body the schema accepts (any other body
\* is answered with 400 and changes nothing): createOrder is best effort, the
\* order is enqueued whether or not its record was created
PostOrder(id, body) ==
  /\ Len(jobs) < MaxJobs
  /\ Parses(body)
  /\ \E dbOk \in DbOutcomes : StoreBecomes(CreateOrder(id, dbOk))
  /\ Enqueue(id, body)
  /\ UNCHANGED <<config, running, timers, listeners, received>>

\* { success: true, message: `Subscribed to order ${orderId}` }
SubscribeAck == Event("subscribed", NoData)

\* the pending status the upgrade listener sends at once
PendingUpdate ==
  Event("pending", [message |-> "Order received and queued for execution"])

\* what the handler of the upgraded connection of order id has sent when it
\* sends the messages of list: ws.send(JSON.stringify(message))
Sent(id, list) ==
  [k \in 1..Len(list) |-> [handler |-> "guarded", orderId |-> id, update |-> list[k]]]

\* an upgrade listener that sends the two initial messages and subscribes
\* no handler
UpgradeOrderDeaf(id, body) ==
  /\ Len(jobs) < MaxJobs
  /\ Parses(body)
  /\ subs[id] = <<>>
  /\ \E dbOk \in DbOutcomes : StoreBecomes(CreateOrder(id, dbOk))
  /\ Enqueue(id, body)
  /\ received' = received \o Sent(id, <<SubscribeAck, PendingUpdate>>)
  /\ UNCHANGED <<config, running, timers, listeners>>

\* the upgrade listener for POST /api/orders/execute with a body the schema
\* accepts: createOrder (best effort), enqueue, then handleUpgrade, whose
\* callback runs in the same turn: it sends the acknowledgement and the
\* pending update and subscribes the forwarding handler.  The order id is
\* generated here, so no handler is registered for it yet.
UpgradeOrder(id, body) ==
  /\ Len(jobs) < MaxJobs
  /\ Parses(body)
  /\ subs[id] = <<>>
  /\ \E dbOk \in DbOutcomes : StoreBecomes(CreateOrder(id, dbOk))
  /\ Enqueue(id, body)
  /\ received' = received \o Sent(id, <<SubscribeAck, PendingUpdate>>)
  /\ subs' = [subs EXCEPT ![id] = Append(@, "guarded")]
  /\ UNCHANGED <<config, running, timers, kept, lastPublish>>

\* a market order is posted
SubmitOrder(id, slip) == PostOrder(id, MarketOrder(slip))

\* a catch block that hands the retry a fresh job record
CaughtForgetful(job, msg) ==
  [job EXCEPT !.attempts = @ + 1, !.error = msg, !.pc = "incrementRetryCount",
              !.triedFallback = FALSE]

\* the start of the catch block: job.attempts += 1, then incrementRetryCount
Caught(job, msg) ==
  [job EXCEPT !.attempts = @ + 1, !.error = msg, !.pc = "incrementRetryCount"]

\* publishStatus calls made one after the other inside the try block: the
\* updates of list are handed to the emitter in order; a listener's exception
\* rejects the awaited promise and lands in the catch block
PublishInTry(j, list, next) ==
  \E out \in PublishOutcomes(jobs[j].orderId, Len(list)) :
    /\ events' = [events EXCEPT ![j] = @ \o SubSeq(list, 1, out.count)]
    /\ received' = received \o Deliveries(jobs[j].orderId, list, out, 1)
    /\ jobs' = [jobs EXCEPT ![j] =
                  IF out.threw THEN Caught(@, "handler error") ELSE [@ EXCEPT !.pc = next]]

\* await db.updateOrderStatus(...) inside the try block, followed by the
\* publishStatus calls that come before the next call of the pipeline
UpdateInTry(j, status, patch, list, next) ==
  \E dbOk \in DbOutcomes :
    LET reply == UpdateOrderStatus(jobs[j].orderId, status, patch, dbOk) IN
      /\ StoreBecomes(reply)
      /\ IF reply.threw
         THEN /\ jobs' = [jobs EXCEPT ![j] = Caught(@, reply.error)]
              /\ UNCHANGED <<events, received>>
         ELSE PublishInTry(j, list, next)

\* a processLoop that never releases the slot of a finished run
FinallyKeeps(j) == running' = running

\* a .finally callback that empties the in-flight set
FinallyClears(j) == running' = {}

\* a processLoop that keeps the slot of a job for the time of its backoff
FinallyUnlessDelayed(j) ==
  running' = IF jobs'[j].pc = "delayed" THEN running ELSE running \ {jobs[j].orderId}

\* the .finally callback of processLoop: running.delete(job.orderId)
Finally(j) == running' = running \ {jobs[j].orderId}

\* processLoop dispatching whenever the queue is non-empty
CanDispatchUnlimited == Len(queue) > 0

\* the condition of processLoop under which it dispatches
CanDispatch == Cardinality(running) < concurrency /\ Len(queue) > 0

\* processLoop, dispatch branch: shift the head, add its id to running and
\* call processJob, which publishes 'routing' and calls getBestRoute
Dispatch ==
  /\ CanDispatch
  /\ LET j == Head(queue) IN
       /\ queue' = Tail(queue)
       /\ running' = running \cup {jobs[j].orderId}
       /\ events' = [events EXCEPT ![j] = <<Event("routing", NoData)>>]
       /\ execLog' = [execLog EXCEPT ![j] = <<>>]
       /\ \E out \in PublishOutcomes(jobs[j].orderId, 1) :
            LET job == [jobs[j] EXCEPT !.runs = @ + 1, !.decision = NoDecision,
                                       !.outcome = NoResult, !.error = NoError]
            IN  /\ jobs' = [jobs EXCEPT ![j] =
                              IF out.threw THEN Caught(job, "handler error")
                              ELSE [job EXCEPT !.pc = "getBestRoute"]]
                /\ received' = received \o
                     Deliveries(jobs[j].orderId, <<Event("routing", NoData)>>, out, 1)
  /\ UNCHANGED <<config, store, timers, listeners, calls, delays>>

\* await dexRouter.getBestRoute(...): a decision, or a rejection
GetBestRoute(j) ==
  /\ jobs[j].pc = "getBestRoute"
  /\ calls' = [calls EXCEPT ![j].route = @ + 1]
  /\ \/ \E rd \in RouterDecisions(dexRouter) :
          jobs' = [jobs EXCEPT ![j] = [@ EXCEPT !.decision = rd, !.pc = "dbRouting"]]
     \/ jobs' = [jobs EXCEPT ![j] = Caught(@, "RPC node error")]
  /\ UNCHANGED <<config, store, queue, running, timers, listeners, received, events, execLog, delays>>

RoutingData(rd) ==
  [selectedDex |-> rd.selectedDex, raydiumPrice |-> rd.raydiumQuote.price,
   meteoraPrice |-> rd.meteoraQuote.price]

\* a pipeline whose second routing event has no payload either
DbRoutingBare(j) ==
  /\ jobs[j].pc = "dbRouting"
  /\ UpdateInTry(j, "routing", RoutingData(jobs[j].decision),
                 <<Event("routing", NoData), Event("building", NoData)>>,
                 "dbBuilding")
  /\ UNCHANGED <<config, queue, running, timers, listeners, execLog, calls, delays>>

\* await db.updateOrderStatus(orderId, 'routing', {...}); then
\* publishStatus 'routing' with the decision and publishStatus 'building'
DbRouting(j) ==
  /\ jobs[j].pc = "dbRouting"
  /\ UpdateInTry(j, "routing", RoutingData(jobs[j].decision),
                 <<Event("routing", RoutingData(jobs[j].decision)), Event("building", NoData)>>,
                 "dbBuilding")
  /\ UNCHANGED <<config, queue, running, timers, listeners, execLog, calls, delays>>

\* a pipeline that persists 'building' and publishes nothing after it
DbBuildingSilent(j) ==
  /\ jobs[j].pc = "dbBuilding"
  /\ UpdateInTry(j, "building", NoPatch, <<>>, "dbSubmitted")
  /\ UNCHANGED <<config, queue, running, timers, listeners, execLog, calls, delays>>

\* await db.updateOrderStatus(orderId, 'building'); then publishStatus 'submitted'
DbBuilding(j) ==
  /\ jobs[j].pc = "dbBuilding"
  /\ UpdateInTry(j, "building", NoPatch, <<Event("submitted", NoData)>>, "dbSubmitted")
  /\ UNCHANGED <<config, queue, running, timers, listeners, execLog, calls, delays>>

\* await db.updateOrderStatus(orderId, 'submitted'); then executeSwap is called
DbSubmitted(j) ==
  /\ jobs[j].pc = "dbSubmitted"
  /\ UpdateInTry(j, "submitted", NoPatch, <<>>, "executeSwap")
  /\ UNCHANGED <<config, queue, running, timers, listeners, execLog, calls, delays>>

\* one executeSwap call: its arguments, whether it is the fallback call, and
\* what it delivered
ExecCall(dex, quote, fallback, res) ==
  [dex |-> dex, quote |-> quote, fallback |-> fallback, result |-> res]

\* a pipeline that falls back without marking the job as having done so
AfterPrimaryUnmarked(job, res) ==
  IF res.kind = "threw" THEN Caught(job, res.error)
  ELSE IF ~res.success
       THEN Caught(job, IF res.error # Undefined THEN res.error ELSE "Execution failed")
  ELSE IF WithinSlippage(res.amountOut, SelectedQuote(job.decision).amountOut,
                         job.slippage, job.attempts)
       THEN [job EXCEPT !.outcome = res, !.pc = "dbConfirmed"]
  ELSE IF ~job.triedFallback
       THEN [job EXCEPT !.pc = "fallbackSwap"]
  ELSE Caught(job, "Slippage tolerance exceeded")

\* what processJob does with the result of executeSwap on the selected DEX
AfterPrimary(job, res) ==
  IF res.kind = "threw" THEN Caught(job, res.error)
  ELSE IF ~res.success
       THEN Caught(job, IF res.error # Undefined THEN res.error ELSE "Execution failed")
  ELSE IF WithinSlippage(res.amountOut, SelectedQuote(job.decision).amountOut,
                         job.slippage, job.attempts)
       THEN [job EXCEPT !.outcome = res, !.pc = "dbConfirmed"]
  ELSE IF ~job.triedFallback
       THEN [job EXCEPT !.triedFallback = TRUE, !.pc = "fallbackSwap"]
  ELSE Caught(job, "Slippage tolerance exceeded")

\* await dexRouter.executeSwap(selectedDex, orderData, selectedQuote)
ExecuteSwap(j) ==
  /\ jobs[j].pc = "executeSwap"
  /\ \E res \in RouterResults(dexRouter) :
       /\ execLog' = [execLog EXCEPT ![j] =
                        Append(@, ExecCall(jobs[j].decision.selectedDex,
                                           SelectedQuote(jobs[j].decision), FALSE, res))]
       /\ jobs' = [jobs EXCEPT ![j] = AfterPrimary(@, res)]
       /\ calls' = [calls EXCEPT ![j].exec = @ + 1,
                                 ![j].execFailed = IF ExecFailed(res) THEN @ + 1 ELSE @,
                                 ![j].passed =
                                   IF AfterPrimary(jobs[j], res).pc = "dbConfirmed" THEN @ + 1 ELSE @,
                                 ![j].late = IF calls[j].passed > 0 THEN @ + 1 ELSE @]
  /\ UNCHANGED <<config, store, queue, running, timers, listeners, received, events, delays>>

\* the quote of the DEX that was not selected
OtherQuote(rd) ==
  IF rd.selectedDex = "raydium" THEN rd.meteoraQuote ELSE rd.raydiumQuote

\* the fallback result is accepted: success and within the same tolerance
FallbackAccepted(job, res) ==
  /\ res.kind = "result"
  /\ res.success
  /\ WithinSlippage(res.amountOut, OtherQuote(job.decision).amountOut,
                    job.slippage, job.attempts)

RetryingData(job) ==
  [reason |-> "slippage", attemptedDex |-> job.decision.selectedDex,
   fallbackTried |-> TRUE,
   allowedSlippage2 |-> EffectiveSlippage2(job.slippage, job.attempts)]

\* await dexRouter.executeSwap(otherDex, job.orderData, otherQuote); an
\* accepted result goes on to be confirmed, any other result publishes
\* 'retrying' and throws 'Slippage tolerance exceeded'
FallbackSwap(j) ==
  /\ jobs[j].pc = "fallbackSwap"
  /\ \E res \in RouterResults(dexRouter) :
       /\ execLog' = [execLog EXCEPT ![j] =
                        Append(@, ExecCall(OtherQuote(jobs[j].decision).dex,
                                           OtherQuote(jobs[j].decision), TRUE, res))]
       /\ calls' = [calls EXCEPT ![j].exec = @ + 1, ![j].fallback = @ + 1,
                                 ![j].execFailed = IF ExecFailed(res) THEN @ + 1 ELSE @,
                                 ![j].passed = IF FallbackAccepted(jobs[j], res) THEN @ + 1 ELSE @,
                                 ![j].late = IF calls[j].passed > 0 THEN @ + 1 ELSE @]
       /\ IF res.kind = "threw"
          THEN /\ jobs' = [jobs EXCEPT ![j] = Caught(@, res.error)]
               /\ UNCHANGED <<events, received>>
          ELSE IF FallbackAccepted(jobs[j], res)
          THEN /\ jobs' = [jobs EXCEPT ![j] = [@ EXCEPT !.outcome = res, !.pc = "dbConfirmed"]]
               /\ UNCHANGED <<events, received>>
          ELSE /\ events' = [events EXCEPT ![j] =
                                Append(@, Event("retrying", RetryingData(jobs[j])))]
               /\ \E out \in PublishOutcomes(jobs[j].orderId, 1) :
                    /\ jobs' = [jobs EXCEPT ![j] =
                                 Caught(@, IF out.threw THEN "handler error"
                                           ELSE "Slippage tolerance exceeded")]
                    /\ received' = received \o
                         Deliveries(jobs[j].orderId,
                                    <<Event("retrying", RetryingData(jobs[j]))>>, out, 1)
  /\ UNCHANGED <<config, store, queue, running, timers, listeners, delays>>

ConfirmedData(res) ==
  [txHash |-> res.txHash, executedPrice |-> res.executedPrice, amountOut |-> res.amountOut]

\* a pipeline that publishes 'confirmed' with the values of the result after
\* persisting the status alone
DbConfirmedUnsaved(j) ==
  /\ jobs[j].pc = "dbConfirmed"
  /\ UpdateInTry(j, "confirmed", NoPatch,
                 <<Event("confirmed", ConfirmedData(jobs[j].outcome))>>, "confirmed")
  /\ IF jobs'[j].pc = "confirmed" THEN Finally(j) ELSE UNCHANGED running
  /\ UNCHANGED <<config, queue, timers, listeners, execLog, calls, delays>>

\* await db.updateOrderStatus(orderId, 'confirmed', {...}) and publishStatus
\* 'confirmed', for the result of the selected DEX and for the accepted
\* fallback result alike; processJob then returns
DbConfirmed(j) ==
  /\ jobs[j].pc = "dbConfirmed"
  /\ UpdateInTry(j, "confirmed", ConfirmedData(jobs[j].outcome),
                 <<Event("confirmed", ConfirmedData(jobs[j].outcome))>>, "confirmed")
  /\ IF jobs'[j].pc = "confirmed" THEN Finally(j) ELSE UNCHANGED running
  /\ UNCHANGED <<config, queue, timers, listeners, execLog, calls, delays>>

\* a backoff computed from the counter as it was before this failure
RetryDelayStale(attempts) == Pow(BackoffBase, attempts - 1) * BackoffUnit

\* Math.pow(2, job.attempts) * 1000
RetryDelay(attempts) == Pow(BackoffBase, attempts) * BackoffUnit

\* a retry limit that is tested with > instead of >=
RetriesExhaustedLate(job) == job.attempts > maxRetries

\* job.attempts >= this.maxRetries
RetriesExhausted(job) == job.attempts >= maxRetries

Escaped(job, msg) == [job EXCEPT !.pc = "escaped", !.error = msg]

\* catch block: await db.incrementRetryCount(orderId), then either go on to
\* the terminal failure or setTimeout(() => queue.push(job), delay) and return.
\* An error thrown here leaves processJob as a rejection.
IncrementRetry(j) ==
  /\ jobs[j].pc = "incrementRetryCount"
  /\ \E dbOk \in DbOutcomes :
       LET reply == IncrementRetryCount(jobs[j].orderId, dbOk) IN
         /\ StoreBecomes(reply)
         /\ IF reply.threw
            THEN /\ jobs' = [jobs EXCEPT ![j] = Escaped(@, reply.error)]
                 /\ Finally(j)
                 /\ UNCHANGED <<timers, delays>>
            ELSE IF RetriesExhausted(jobs[j])
            THEN /\ jobs' = [jobs EXCEPT ![j].pc = "dbFailed"]
                 /\ UNCHANGED <<running, timers, delays>>
            ELSE /\ jobs' = [jobs EXCEPT ![j].pc = "delayed"]
                 /\ timers' = timers \cup {[job |-> j, delay |-> RetryDelay(jobs[j].attempts)]}
                 /\ delays' = [delays EXCEPT ![j] = Append(@, RetryDelay(jobs[j].attempts))]
                 /\ Finally(j)
  /\ UNCHANGED <<config, queue, listeners, received, events, execLog, calls>>

\* `Failed after ${job.attempts} attempts: ${error.message || error}`
ErrorMessage(job) == <<"Failed after", job.attempts, "attempts:", job.error>>

FailedPatch(job) == [errorMessage |-> ErrorMessage(job), retryCount |-> job.attempts]

\* a catch block that publishes 'failed' and puts the job back on the queue
DbFailedRequeues(j) ==
  /\ jobs[j].pc = "dbFailed"
  /\ \E dbOk \in DbOutcomes :
       LET reply == UpdateOrderStatus(jobs[j].orderId, "failed", FailedPatch(jobs[j]), dbOk) IN
         /\ StoreBecomes(reply)
         /\ IF reply.threw
            THEN /\ jobs' = [jobs EXCEPT ![j] = Escaped(@, reply.error)]
                 /\ UNCHANGED <<events, received, queue>>
            ELSE /\ events' = [events EXCEPT ![j] =
                                Append(@, Event("failed", [error |-> jobs[j].error]))]
                 /\ jobs' = [jobs EXCEPT ![j].pc = "queued"]
                 /\ queue' = Append(queue, j)
                 /\ UNCHANGED received
  /\ Finally(j)
  /\ UNCHANGED <<config, timers, listeners, execLog, calls, delays>>

\* catch block: await db.updateOrderStatus(orderId, 'failed', {...}) and
\* publishStatus 'failed'; processJob then returns, or rejects when the store
\* or a listener threw
DbFailed(j) ==
  /\ jobs[j].pc = "dbFailed"
  /\ \E dbOk \in DbOutcomes :
       LET reply == UpdateOrderStatus(jobs[j].orderId, "failed", FailedPatch(jobs[j]), dbOk) IN
         /\ StoreBecomes(reply)
         /\ IF reply.threw
            THEN /\ jobs' = [jobs EXCEPT ![j] = Escaped(@, reply.error)]
                 /\ UNCHANGED <<events, received>>
            ELSE /\ events' = [events EXCEPT ![j] =
                                Append(@, Event("failed", [error |-> jobs[j].error]))]
                 /\ \E out \in PublishOutcomes(jobs[j].orderId, 1) :
                      /\ jobs' = [jobs EXCEPT ![j] =
                                   IF out.threw THEN Escaped(@, "handler error")
                                   ELSE [@ EXCEPT !.pc = "failed"]]
                      /\ received' = received \o
                           Deliveries(jobs[j].orderId,
                                      <<Event("failed", [error |-> jobs[j].error])>>, out, 1)
  /\ Finally(j)
  /\ UNCHANGED <<config, queue, timers, listeners, execLog, calls, delays>>

\* the setTimeout callback of the catch block: this.queue.push(job)
TimerFire(t) ==
  /\ t \in timers
  /\ timers' = timers \ {t}
  /\ queue' = Append(queue, t.job)
  /\ jobs' = [jobs EXCEPT ![t.job].pc = "queued"]
  /\ UNCHANGED <<config, store, running, listeners, received, events, execLog, calls, delays>>

\* close(): logs a line and returns; it assigns no field of the worker, stops
\* no loop and clears no timer
Close ==
  /\ ~closed
  /\ closed' = TRUE
  /\ UNCHANGED <<dexRouter, concurrency, maxRetries, production, store, jobs, queue,
                 running, timers, listeners, received, events, execLog, calls, delays>>

\* ------------------------------------------------------------ specification
\* the state after construction, for the configurations drawn from the sets:
\* the database is either connected (enabled) or, outside production, was
\* found unreachable by initialize()
InitWith(routers, concurrencies, retryLimits, modes) ==
  /\ dexRouter \in routers
  /\ concurrency \in concurrencies
  /\ maxRetries \in retryLimits
  /\ \E m \in modes : production = m.production /\ enabled = m.enabled
  /\ memOrders = [id \in OrderIds |-> NoRow]
  /\ dbOrders = [id \in OrderIds |-> NoRow]
  /\ jobs = <<>>
  /\ queue = <<>>
  /\ running = {}
  /\ timers = {}
  /\ subs = [id \in OrderIds |-> <<>>]
  /\ events = <<>>
  /\ execLog = <<>>
  /\ calls = <<>>
  /\ delays = <<>>
  /\ kept = <<>>
  /\ received = <<>>
  /\ lastPublish = NoPublish
  /\ closed = FALSE

StoreModes ==
  { [production |-> FALSE, enabled |-> FALSE],
    [production |-> FALSE, enabled |-> TRUE],
    [production |-> TRUE, enabled |-> TRUE] }

Init == InitWith({"stub"}, Concurrencies, RetryLimits, StoreModes)

\* the steps of the pipelines, the backoff timers and the dispatch loop
Worker ==
  \/ Dispatch
  \/ \E j \in JobIds : GetBestRoute(j)
  \/ \E j \in JobIds : DbRouting(j)
  \/ \E j \in JobIds : DbBuilding(j)
  \/ \E j \in JobIds : DbSubmitted(j)
  \/ \E j \in JobIds : ExecuteSwap(j)
  \/ \E j \in JobIds : FallbackSwap(j)
  \/ \E j \in JobIds : DbConfirmed(j)
  \/ \E j \in JobIds : IncrementRetry(j)
  \/ \E j \in JobIds : DbFailed(j)
  \/ \E t \in timers : TimerFire(t)

\* clients of GET /ws come and go
Listeners ==
  \/ \E id \in OrderIds : SubscribeOrder(id, "unguarded")
  \/ \E id \in OrderIds : Unsubscribe(id, "unguarded")

\* orders are submitted over POST and no client listens on GET /ws
Next ==
  \/ \E id \in OrderIds, slip \in OrderSlippages : SubmitOrder(id, slip)
  \/ Worker

Spec == Init /\ [][Next]_vars

\* one order is submitted while clients of GET /ws come and go; every retry
\* limit up to the default of 3
SubmitFirst(id, slip) == jobs = <<>> /\ SubmitOrder(id, slip)

InitSingle == InitWith({"arbitrary"}, {1}, {1, 2, 3}, StoreModes)

NextSingle ==
  \/ \E id \in OrderIds, slip \in OrderSlippages : SubmitFirst(id, slip)
  \/ Worker
  \/ Listeners

SpecSingle == InitSingle /\ [][NextSingle]_vars

\* the steps of the pipeline of job j
PipelineStep(j) ==
  \/ GetBestRoute(j)
  \/ DbRouting(j)
  \/ DbBuilding(j)
  \/ DbSubmitted(j)
  \/ ExecuteSwap(j)
  \/ FallbackSwap(j)
  \/ DbConfirmed(j)
  \/ IncrementRetry(j)
  \/ DbFailed(j)

\* an order submitted under an id no earlier order carries, as the server
\* generates them
SubmitNew(id, slip) ==
  /\ \A j \in JobIds : jobs[j].orderId # id
  /\ SubmitOrder(id, slip)

\* the worker over the in-memory store, which answers every call of a
\* created order, with no subscribers; MAX_CONCURRENT_ORDERS may be 0
InitLive ==
  InitWith({"stub"}, {0, 1, 2}, RetryLimits, {[production |-> FALSE, enabled |-> FALSE]})

NextLive ==
  \/ \E id \in OrderIds, slip \in OrderSlippages : SubmitNew(id, slip)
  \/ Worker

\* processLoop polls the queue for ever, every awaited call of a pipeline
\* returns, and every timer fires
Fairness ==
  /\ WF_vars(Dispatch)
  /\ \A j \in 1..MaxJobs : WF_vars(j \in JobIds /\ PipelineStep(j))
  /\ WF_vars(\E t \in timers : TimerFire(t))

SpecLive == InitLive /\ [][NextLive]_vars /\ Fairness

\* the request bodies clients post: every order type of the schema and one
\* that is not in it
Bodies ==
  {[orderType |-> ty, slippage |-> slip] :
     ty \in SchemaOrderTypes \cup {"stop"}, slip \in OrderSlippages}

\* a body posted to the route, which gives the order an id of its own
PostNew(id, body) ==
  /\ \A j \in JobIds : jobs[j].orderId # id
  /\ PostOrder(id, body)

\* orders of every type are posted to the worker over the in-memory store
InitOrders ==
  InitWith({"stub"}, Concurrencies, RetryLimits, {[production |-> FALSE, enabled |-> FALSE]})

NextOrders ==
  \/ \E id \in OrderIds, body \in Bodies : PostNew(id, body)
  \/ Worker

SpecOrders == InitOrders /\ [][NextOrders]_vars

\* one order is posted over a connection that is upgraded and stays open,
\* while clients of GET /ws subscribe to its id and leave
UpgradeFirst(id, slip) == jobs = <<>> /\ UpgradeOrder(id, MarketOrder(slip))

InitUpgrade == InitWith({"stub"}, {1}, {2}, StoreModes)

NextUpgrade ==
  \/ \E id \in OrderIds, slip \in OrderSlippages : UpgradeFirst(id, slip)
  \/ Worker
  \/ \E id \in OrderIds : SubscribeKeeping(id, "unguarded")
  \/ \E k \in 1..MaxKept : CallKept(k)

SpecUpgrade == InitUpgrade /\ [][NextUpgrade]_vars

\* orderData.slippage of the orders of the slippage runs: absent, 0 and 0.15
ProbeSlippages == {NoNumber, 0, 1500}

\* one order with one of these tolerances, a router that fills on both
\* sides of the thresholds, the in-memory store and a retry limit of 3
InitSlippage ==
  InitWith({"probe"}, {1}, {3}, {[production |-> FALSE, enabled |-> FALSE]})

NextSlippage ==
  \/ \E id \in OrderIds, slip \in ProbeSlippages : SubmitFirst(id, slip)
  \/ Worker

SpecSlippage == InitSlippage /\ [][NextSlippage]_vars

\* orderData.slippage of the requests of the tolerance runs: absent, 0, 0.15,
\* the cap 0.20, 0.50, the largest value 1 the schema accepts, and 1.2
RequestSlippages == {NoNumber, 0, 1500, 2000, 5000, 10000, 12000}

\* one request with one of these tolerances is posted; the router fills on
\* both sides of the thresholds
InitTolerance ==
  InitWith({"probe"}, {1}, {3}, {[production |-> FALSE, enabled |-> FALSE]})

NextTolerance ==
  \/ \E id \in OrderIds, slip \in RequestSlippages : SubmitFirst(id, slip)
  \/ Worker

SpecTolerance == InitTolerance /\ [][NextTolerance]_vars

\* orders are posted under ids of their own to a worker over the in-memory
\* store, and close() is called at some point, as server.stop() and the
\* tests' afterAll do
InitClose ==
  InitWith({"stub"}, {1}, RetryLimits, {[production |-> FALSE, enabled |-> FALSE]})

NextClose ==
  \/ \E id \in OrderIds, slip \in OrderSlippages : SubmitNew(id, slip)
  \/ Worker
  \/ Close

SpecClose == InitClose /\ [][NextClose]_vars

\* clients of the PubSub alone: recording and throwing handlers subscribe,
\* the functions returned are called, messages are published
InitPubSub ==
  InitWith({"stub"}, {1}, {1}, {[production |-> FALSE, enabled |-> FALSE]})

NextPubSub ==
  \/ \E id \in OrderIds, h \in Recorders \cup {"unguarded"} : SubscribeKeeping(id, h)
  \/ \E k \in 1..MaxKept : CallKept(k)
  \/ \E id \in OrderIds, msg \in Updates : PublishOrder(id, msg)

SpecPubSub == InitPubSub /\ [][NextPubSub]_vars

\* ------------------------------------------------------------- properties
\* the job objects whose pipeline is executing: dispatched and not yet returned
ExecutingJobs == {j \in JobIds : Executing(j)}

\* every enqueue call so far carried an order id of its own
DistinctIds == \A i, j \in JobIds : i # j => jobs[i].orderId # jobs[j].orderId

\* C1: when the enqueued order ids are pairwise distinct, the number of jobs
\* whose pipeline is executing is at most the concurrency limit.
C1_ConcurrencyLimit == DistinctIds => Cardinality(ExecutingJobs) <= concurrency

\* the limit is reached while another job waits in the queue
C1_AtLimit ==
  /\ DistinctIds
  /\ Cardinality(ExecutingJobs) = concurrency
  /\ Len(queue) > 0

\* C2: whatever ids are enqueued, repeated ones included, no two pipelines
\* execute for the same order id at the same time.
C2_OneRunPerOrderId ==
  \A i, j \in ExecutingJobs : jobs[i].orderId = jobs[j].orderId => i = j

\* the latest run of job j has ended without publishing 'confirmed' last: it
\* ended in the catch block, by a return or by an error thrown there
EndedInCatch(j) == jobs[j].pc \in {"failed", "delayed", "escaped"}

\* C3: attempts goes up by exactly 1 with every failed attempt and by 0 with
\* a confirmed one, and a job ends in the terminal failed state if and only
\* if attempts equals the retry limit after a failure.
C3_AttemptsAndFailure ==
  \A j \in JobIds :
    /\ jobs[j].pc = "confirmed" => jobs[j].attempts = jobs[j].runs - 1
    /\ EndedInCatch(j) =>
         /\ jobs[j].attempts = jobs[j].runs
         /\ jobs[j].pc = "failed" <=> jobs[j].attempts = maxRetries

\* C4: the fallback executeSwap is called at most once per job over all its
\* attempts; triedFallback is set before that call is made and stays set, so
\* a slippage violation of a later attempt triggers no fallback.
C4_FallbackOnce ==
  \A j \in JobIds :
    /\ calls[j].fallback <= 1
    /\ jobs[j].triedFallback <=> (calls[j].fallback = 1 \/ jobs[j].pc = "fallbackSwap")

\* a second attempt violates the tolerance after the first one used the
\* fallback: it fails with no further fallback call
C4_SecondViolation ==
  \E j \in JobIds :
    /\ jobs[j].runs = 2
    /\ calls[j].fallback = 1
    /\ Len(execLog[j]) = 1
    /\ ~execLog[j][1].fallback
    /\ execLog[j][1].result.success
    /\ jobs[j].pc = "incrementRetryCount"
    /\ jobs[j].error = "Slippage tolerance exceeded"

\* the last status update published by the latest run of job j
LastEvent(j) == events[j][Len(events[j])]

\* the record of the order of job j carries the values of the result res
RecordCarries(j, res) ==
  LET row == GetOrder(jobs[j].orderId) IN
    /\ row.status = "confirmed"
    /\ row.txHash = res.txHash
    /\ row.executedPrice = res.executedPrice
    /\ row.amountOut = res.amountOut

\* the latest run of job j holds a result that passed the slippage check and
\* is past the call that persists it
PassedCheck(j) == jobs[j].outcome # NoResult /\ jobs[j].pc # "dbConfirmed"

\* C5: a result, primary or fallback, that reports success with an amountOut
\* of at least expected * (1 - effective tolerance) makes the job confirmed,
\* and the confirmed event and the persisted record carry exactly that
\* result's txHash, executedPrice and amountOut.
C5_PassingOutcomeConfirmed ==
  \A j \in JobIds :
    PassedCheck(j) =>
      /\ jobs[j].pc = "confirmed"
      /\ LastEvent(j) = Event("confirmed", ConfirmedData(jobs[j].outcome))
      /\ GetOrder(jobs[j].orderId) # NoRow => RecordCarries(j, jobs[j].outcome)

\* the latest run of job j called the selected DEX, whose successful result
\* violated the tolerance, and then the other DEX
FellBack(j) ==
  /\ Len(execLog[j]) = 2
  /\ execLog[j][1].result.success
  /\ execLog[j][2].fallback

\* C6: when the result of the selected DEX violates the tolerance and the one
\* fallback result is within it, the job ends confirmed with the values of
\* the fallback result, with triedFallback set and attempts not incremented.
C6_FallbackConfirmed ==
  \A j \in JobIds :
    FellBack(j) /\ PassedCheck(j) =>
      /\ jobs[j].pc = "confirmed"
      /\ jobs[j].outcome = execLog[j][2].result
      /\ LastEvent(j) = Event("confirmed", ConfirmedData(execLog[j][2].result))
      /\ jobs[j].triedFallback
      /\ jobs[j].attempts = jobs[j].runs - 1

\* in the latest run of job j both DEXes reported success with an amount that
\* violates the tolerance, and the run is past the first call of its catch block
BothViolated(j) ==
  /\ FellBack(j)
  /\ execLog[j][2].result.kind = "result"
  /\ execLog[j][2].result.success
  /\ jobs[j].outcome = NoResult
  /\ jobs[j].pc # "incrementRetryCount"

\* C7: when both DEXes violate the tolerance the attempt fails; with a retry
\* limit of 1 the job goes straight to failed, and the persisted error message
\* and the failed event name 'Slippage tolerance exceeded'.
C7_SlippageFailure ==
  \A j \in JobIds :
    maxRetries = 1 /\ BothViolated(j) /\ jobs[j].pc # "dbFailed" =>
      /\ jobs[j].pc = "failed"
      /\ jobs[j].attempts = 1
      /\ LastEvent(j) = Event("failed", [error |-> "Slippage tolerance exceeded"])
      /\ GetOrder(jobs[j].orderId) # NoRow =>
           GetOrder(jobs[j].orderId).errorMessage =
             <<"Failed after", 1, "attempts:", "Slippage tolerance exceeded">>

\* job j has ended failed under a retry limit of 3 after three executeSwap
\* calls, none of which delivered a successful result
FailedThrice(j) ==
  /\ maxRetries = 3
  /\ jobs[j].pc = "failed"
  /\ calls[j].exec = 3
  /\ calls[j].execFailed = 3

Statuses(j) == [k \in 1..Len(events[j]) |-> events[j][k].status]

\* the phases every run goes through up to its executeSwap call
Phases == <<"routing", "routing", "building", "submitted">>

\* what a run can publish after the first k phases
Endings(k) ==
  IF k = 0 THEN {<<>>}
  ELSE IF k < Len(Phases) THEN {<<>>, <<"failed">>}
  ELSE {<<>>, <<"failed">>, <<"retrying">>, <<"retrying", "failed">>,
        <<"confirmed">>, <<"confirmed", "failed">>}

\* C9, as the code has it: a run publishes routing, routing with the
\* decision, building and submitted in this order without skipping any;
\* confirmed and retrying are published only after submitted of the same
\* run; failed is the last update of a run and can follow any phase.
C9_PhaseOrder ==
  \A j \in JobIds :
    \E k \in 0..Len(Phases) :
      /\ k <= Len(events[j])
      /\ SubSeq(Statuses(j), 1, k) = SubSeq(Phases, 1, k)
      /\ SubSeq(Statuses(j), k + 1, Len(events[j])) \in Endings(k)

C9_FullRun ==
  \E j \in JobIds : Statuses(j) = Phases \o <<"confirmed">> /\ jobs[j].runs = 2

\* C9, as stated: every attempt publishes routing, building and submitted,
\* and confirmed or failed is published only after submitted of the same
\* attempt.
C9_TerminalAfterSubmitted ==
  \A j \in JobIds :
    \A k \in 1..Len(events[j]) :
      events[j][k].status \in {"confirmed", "failed"} =>
        \E m \in 1..(k - 1) : events[j][m].status = "submitted"

\* C10: no error escapes a run of processJob, whatever the router and the
\* store do: every run ends by publishing confirmed or failed or by
\* scheduling the re-admission of the job.
C10_NoEscape == \A j \in JobIds : jobs[j].pc # "escaped"

\* the errors a DatabaseService call can throw
StoreErrors == {"Order not found", "query failed", "TypeError"}

\* the try block of the latest run of job j was left by a store error: the
\* catch block has counted the attempt and is about to call incrementRetryCount
AbortedByStore(j) ==
  jobs[j].pc = "incrementRetryCount" /\ jobs[j].error \in StoreErrors

\* C11: outside production a failing updateOrderStatus call of the pipeline
\* (routing, building, submitted or confirmed; 'Order not found' included)
\* does not abort the attempt and is not counted as a failed attempt.
C11_StoreFailureNotFatal ==
  ~production => \A j \in JobIds : ~AbortedByStore(j)

\* job i exists and its latest run has published confirmed or failed
Settled(i) == i \in JobIds /\ jobs[i].runs > 0 /\ jobs[i].pc \in {"confirmed", "failed"}

\* C12, as the code has it: when the store answers every call, no handler
\* throws, the order ids are distinct, the retry limit is at least 1 and the
\* concurrency limit is at least 1, every enqueued job is eventually
\* dispatched and eventually publishes confirmed or failed.
C12_EveryJobSettles ==
  \A i \in 1..MaxJobs : (i \in JobIds /\ concurrency >= 1) ~> Settled(i)

\* the job enqueued last has settled after a retry under a limit of one slot
C12_LastJobSettled ==
  /\ Len(jobs) = MaxJobs
  /\ concurrency = 1
  /\ Settled(MaxJobs)
  /\ jobs[MaxJobs].runs = 2

\* C12, as stated: under the same assumptions without the one on the
\* concurrency limit, every enqueued job eventually publishes confirmed or
\* failed.
C12_EveryJobSettlesAnyLimit ==
  \A i \in 1..MaxJobs : (i \in JobIds) ~> Settled(i)

\* what the recording handlers pushed since the latest client publish began
SincePublish == SubSeq(received, lastPublish.before + 1, Len(received))

\* the recording handlers registered for the topic of the latest client
\* publish when it was made, one entry per registration, in registration order
RegisteredThen == SelectSeq(lastPublish.listeners, LAMBDA h : h \in Recorders)

\* C13: publishOrder(id, message) calls every handler registered for id,
\* once per registration and in registration order, and no handler that is
\* registered for another id only.
C13_InvokesAllInOrder ==
  lastPublish # NoPublish =>
    SincePublish =
      [k \in 1..Len(RegisteredThen) |->
         [handler |-> RegisteredThen[k], orderId |-> lastPublish.orderId,
          update |-> lastPublish.update]]

\* C14: delivery is not buffered: a handler receives exactly the messages
\* published for its id while it is registered, so a message reaches the
\* handlers registered when it is published, and none that subscribed later
\* or had unsubscribed.
C14_ExactlyWhileRegistered ==
  lastPublish # NoPublish =>
    \A h \in Recorders :
      (\E k \in 1..Len(lastPublish.listeners) : lastPublish.listeners[k] = h)
        <=> (\E k \in 1..Len(SincePublish) :
               SincePublish[k] = [handler |-> h, orderId |-> lastPublish.orderId,
                                  update |-> lastPublish.update])

\* C15: calling an unsubscribe function for the second time or later leaves
\* the registrations of every id as they were.
C15_UnsubscribeIdempotent ==
  [][\A k \in 1..Len(kept) : (kept[k].calls >= 1 /\ CallKept(k)) => subs' = subs]_vars

\* the step starts a run of job j
Dispatched(j) == jobs'[j].runs = jobs[j].runs + 1

\* C16: the pending list is first in, first out. A step that adds a job
\* appends it at the tail and changes neither the in-flight set nor an
\* existing job; the list otherwise changes only by a timer appending its job
\* at the tail or by the dispatch of its head, and only the head is dispatched.
C16_FifoDispatch ==
  [][/\ Len(jobs') > Len(jobs) =>
          /\ queue' = Append(queue, Len(jobs) + 1)
          /\ running' = running
          /\ \A j \in JobIds : jobs'[j] = jobs[j]
     /\ (Len(jobs') = Len(jobs) /\ queue' # queue) =>
          \/ queue # <<>> /\ queue' = Tail(queue) /\ Dispatched(Head(queue))
          \/ \E t \in timers : queue' = Append(queue, t.job) /\ timers' = timers \ {t}
     /\ \A j \in JobIds :
          (Len(jobs') = Len(jobs) /\ Dispatched(j)) =>
             /\ queue # <<>> /\ j = Head(queue) /\ queue' = Tail(queue)
             /\ running' = running \cup {jobs[j].orderId}]_vars

\* the first job failed once and was appended again behind the second, which
\* was dispatched in its turn
C16_RequeuedBehind ==
  /\ Len(jobs) = 2 /\ queue = <<1>>
  /\ jobs[1].runs = 1 /\ jobs[2].runs = 1

\* job j is rescheduled: its run has returned and its timer has not fired
Waiting(j) == jobs[j].pc = "delayed"

\* job j is in the pending list
Pending(j) == \E k \in 1..Len(queue) : queue[k] = j

\* a backoff timer holds job j
OnTimer(j) == \E t \in timers : t.job = j

\* C17: a rescheduled job has left the in-flight set when its run returned
\* (its id is there only for another job that is executing under the same
\* id), is held by a timer and is not in the pending list; it comes back only
\* by its timer firing, which appends it at the tail.
C17_BackoffHoldsNoSlot ==
  /\ [](\A j \in JobIds :
          Waiting(j) =>
            /\ OnTimer(j) /\ ~Pending(j)
            /\ jobs[j].orderId \in running =>
                 \E k \in ExecutingJobs : k # j /\ jobs[k].orderId = jobs[j].orderId)
  /\ [][\A j \in JobIds :
          (Waiting(j) /\ jobs'[j] # jobs[j]) =>
             \E t \in timers :
               t.job = j /\ timers' = timers \ {t} /\ queue' = Append(queue, j)]_vars

\* with a single slot, the second job is executing while the first waits for
\* its backoff timer
C17_OtherRunsMeanwhile ==
  /\ concurrency = 1 /\ Len(jobs) = 2 /\ DistinctIds
  /\ Waiting(1) /\ Executing(2)

\* the latest run of job j has published a terminal status
HasOutcome(j) ==
  \E k \in 1..Len(events[j]) : events[j][k].status \in {"confirmed", "failed"}

\* the number of the three places that hold job j: the pending list, the
\* in-flight set, the backoff timers
Places(j) ==
  (IF Pending(j) THEN 1 ELSE 0) + (IF jobs[j].orderId \in running THEN 1 ELSE 0)
    + (IF OnTimer(j) THEN 1 ELSE 0)

\* C18: with distinct order ids, a job that has not reached a terminal
\* outcome is in exactly one of the pending list, the in-flight set and the
\* timers, and at most once in the pending list.
C18_ExactlyOnePlace ==
  DistinctIds =>
    \A j \in JobIds :
      ~HasOutcome(j) =>
        /\ Places(j) = 1
        /\ Cardinality({k \in 1..Len(queue) : queue[k] = j}) <= 1

\* C19: once the run in which a job published confirmed or failed has
\* returned, the job is neither pending nor on a timer, nor (its id being its
\* own) in the in-flight set; as this holds from then on, it never re-enters.
C19_SettledStaysOut ==
  \A j \in JobIds :
    (HasOutcome(j) /\ ~Executing(j)) =>
      /\ ~Pending(j)
      /\ ~OnTimer(j)
      /\ DistinctIds => jobs[j].orderId \notin running

\* C20: only market orders are created and enqueued: every job of the
\* pipeline comes from a request whose orderType is 'market'.
C20_OnlyMarketEnqueued == \A j \in JobIds : jobs[j].orderType = "market"

\* the messages sent over the upgraded connection of order id, in order
ConnectionLog(id) ==
  LET own == SelectSeq(received, LAMBDA r : r.handler = "guarded" /\ r.orderId = id)
  IN  [k \in 1..Len(own) |-> own[k].update]

\* C21: over the upgraded connection of an order the client is sent the
\* acknowledgement and the pending update first, and after them every event
\* the pipeline publishes for the job: the events of the run in progress are
\* the last messages sent, none missing.
C21_UpgradeMissesNothing ==
  \A j \in JobIds :
    LET log == ConnectionLog(jobs[j].orderId) IN
      /\ Len(log) >= 2 + Len(events[j])
      /\ log[1] = SubscribeAck
      /\ log[2] = PendingUpdate
      /\ SubSeq(log, Len(log) - Len(events[j]) + 1, Len(log)) = events[j]

\* a job posted over an upgraded connection was retried and confirmed while a
\* handler that throws was registered for it, and the connection has been
\* sent more than the events of the last run
C21_ForwardedToTheEnd ==
  \E j \in JobIds :
    /\ jobs[j].pc = "confirmed" /\ jobs[j].runs = 2
    /\ CanThrow(jobs[j].orderId)
    /\ Len(ConnectionLog(jobs[j].orderId)) > 2 + Len(events[j])

PublishedRetrying(j) == \E k \in 1..Len(events[j]) : events[j][k].status = "retrying"

\* C23: a job that has been scheduled for re-admission after a failed
\* attempt, whatever made the attempt fail, has published a retrying event in
\* that attempt.
C23_RetryingBeforeReschedule ==
  \A j \in JobIds : (Waiting(j) \/ (Pending(j) /\ jobs[j].runs > 0)) => PublishedRetrying(j)

\* the positions of the routing events among the events of the latest run of job j
RoutingEvents(j) == {k \in 1..Len(events[j]) : events[j][k].status = "routing"}

\* C24, as the code has it: an attempt publishes at most two routing events.
\* The first event of the attempt is a routing event without payload,
\* published before route selection; a second one follows it directly and
\* carries both venues' prices and the chosen venue of the RoutingDecision of
\* that attempt.
C24_SecondRoutingCarriesDecision ==
  \A j \in JobIds :
    /\ RoutingEvents(j) \subseteq {1, 2}
    /\ 1 \in RoutingEvents(j) => events[j][1].data = NoData
    /\ 2 \in RoutingEvents(j) =>
         /\ jobs[j].decision # NoDecision
         /\ events[j][2].data =
              [selectedDex |-> jobs[j].decision.selectedDex,
               raydiumPrice |-> jobs[j].decision.raydiumQuote.price,
               meteoraPrice |-> jobs[j].decision.meteoraQuote.price]

\* a retry has published both of its routing events
C24_RetryRouted ==
  \E j \in JobIds : jobs[j].runs = 2 /\ RoutingEvents(j) = {1, 2}

\* C24, as stated: every routing event published for a job carries both
\* venues' prices and the chosen venue.
C24_EveryRoutingCarriesDecision ==
  \A j \in JobIds :
    \A k \in RoutingEvents(j) :
      DOMAIN events[j][k].data = {"selectedDex", "raydiumPrice", "meteoraPrice"}

\* the latest executeSwap call of job j
LastExec(j) == execLog[j][Len(execLog[j])]

\* the latest run of job j has ended, and its attempt failed by an error
\* thrown by the router: by executeSwap, or (no listener being registered
\* that could throw before it) by getBestRoute, which left the attempt
\* without a decision
ThrownByRouter(j) ==
  /\ jobs[j].runs > 0 /\ ~Executing(j)
  /\ \/ execLog[j] # <<>> /\ LastExec(j).result.kind = "threw"
     \/ jobs[j].decision = NoDecision /\ ~CanThrow(jobs[j].orderId)

\* the latest run of job j has ended, and its attempt failed because
\* executeSwap on the selected DEX returned success false
ReportedByRouter(j) ==
  /\ jobs[j].runs > 0 /\ ~Executing(j)
  /\ execLog[j] # <<>>
  /\ LastExec(j).result.kind = "result" /\ ~LastExec(j).result.success
  /\ ~LastExec(j).fallback

\* what the catch block leaves behind for a failed attempt of job j: the
\* attempt is counted, and the job is terminally failed when the budget is
\* used up and is otherwise waiting for, or back from, its backoff timer
HandledAsFailure(j) ==
  /\ jobs[j].attempts = jobs[j].runs
  /\ IF jobs[j].attempts >= maxRetries
     THEN jobs[j].pc = "failed"
     ELSE \/ Pending(j) /\ ~OnTimer(j)
          \/ /\ Waiting(j)
             /\ \E t \in timers :
                  t.job = j /\ t.delay = Pow(BackoffBase, jobs[j].attempts) * BackoffUnit

\* C25: an error thrown by route selection or by execute is handled like a
\* reported failure: the attempt is counted and the job is rescheduled with
\* the backoff delay or, the budget being used up, terminally failed.
C25_ThrownLikeReported ==
  \A j \in JobIds : (ThrownByRouter(j) \/ ReportedByRouter(j)) => HandledAsFailure(j)

\* the attempt of job j has just entered the catch block after a successful
\* result of the selected DEX that violated the tolerance and was not made
\* good by an accepted fallback result
UnresolvedViolation(j) ==
  /\ jobs[j].pc = "incrementRetryCount"
  /\ execLog[j] # <<>>
  /\ execLog[j][1].result.kind = "result" /\ execLog[j][1].result.success
  /\ jobs[j].outcome = NoResult

\* C26: however a slippage violation on the selected DEX stays unresolved
\* (the fallback reports failure, throws or violates the tolerance too, or
\* the fallback had been tried before), the attempt fails with the reason
\* 'Slippage tolerance exceeded'.
C26_UnresolvedSlippageReason ==
  \A j \in JobIds :
    UnresolvedViolation(j) => jobs[j].error = "Slippage tolerance exceeded"

\* the runs of job j in which getBestRoute is due to have been called: all
\* runs started, less the one that is about to call it
RunsRouted(j) == jobs[j].runs - (IF jobs[j].pc = "getBestRoute" THEN 1 ELSE 0)

\* C27: every attempt calls getBestRoute exactly once, at its start, and
\* every executeSwap call of the attempt takes its DEX and its quote from the
\* decision of that attempt: the selected DEX with the selected quote, and
\* for the fallback the other DEX with the other quote.
C27_OneRoutePerAttempt ==
  \A j \in JobIds :
    /\ calls[j].route = RunsRouted(j)
    /\ \A k \in 1..Len(execLog[j]) :
         /\ jobs[j].decision # NoDecision
         /\ execLog[j][k].fallback <=> k = 2
         /\ execLog[j][k].quote =
              IF execLog[j][k].fallback THEN OtherQuote(jobs[j].decision)
              ELSE SelectedQuote(jobs[j].decision)
         /\ execLog[j][k].dex = execLog[j][k].quote.dex
         /\ execLog[j][k].fallback <=> execLog[j][k].dex # jobs[j].decision.selectedDex

\* the step is the dispatch of the head of the pending list by processLoop
DispatchStep ==
  /\ queue # <<>>
  /\ queue' = Tail(queue)
  /\ Dispatched(Head(queue))
  /\ running' = running \cup {jobs[Head(queue)].orderId}

\* the step ends the run of job j, and the .finally callback processLoop
\* attached to the run takes the id of the job out of the in-flight set
ReturnStep(j) ==
  /\ Executing(j) /\ jobs'[j].pc \notin ExecutingPcs
  /\ running' = running \ {jobs[j].orderId}
  /\ queue' = queue

\* the step is an enqueue call: a new job at the tail of the pending list
EnqueueStep ==
  /\ Len(jobs') = Len(jobs) + 1
  /\ queue' = Append(queue, Len(jobs) + 1)
  /\ running' = running

\* the step is the callback of a backoff timer armed by the catch block of
\* processJob: it pushes its job onto the pending list
TimerStep ==
  \E t \in timers :
    /\ Waiting(t.job)
    /\ timers' = timers \ {t}
    /\ queue' = Append(queue, t.job)
    /\ running' = running

\* C28, as the code has it: the in-flight set is changed only by
\* processLoop, at a dispatch and when a run it started returns; the pending
\* list is changed by enqueue, by the dispatch, and by the timer callback
\* that the catch block of a pipeline run creates.
C28_WhoMutates ==
  [][(queue' # queue \/ running' # running) =>
       \/ EnqueueStep
       \/ DispatchStep
       \/ TimerStep
       \/ \E j \in JobIds : ReturnStep(j)]_vars

\* the second job is back in the pending list, put there by its timer, while
\* the first is in flight
C28_RequeuedByTimer ==
  /\ Len(jobs) = 2 /\ queue = <<2>> /\ jobs[2].runs = 1
  /\ Executing(1) /\ jobs[1].orderId \in running

\* C28, as stated: the pending list and the in-flight set are changed by the
\* dispatch loop only (and by the enqueue call that hands it a job), never
\* by a callback or timer a pipeline run creates.
C28_OnlyDispatchLoop ==
  [][(queue' # queue \/ running' # running) =>
       \/ EnqueueStep
       \/ DispatchStep
       \/ \E j \in JobIds : ReturnStep(j)]_vars

\* the number of failed attempts of job j when the slippage check of its
\* latest run was made
AttemptsAtCheck(j) ==
  IF jobs[j].pc = "incrementRetryCount" THEN jobs[j].attempts - 1 ELSE jobs[j].attempts

\* amountOut >= expected * (1 - min(0.20, base * (1 + attempts * 0.5))), base
\* being 0.01 for an order without slippage, in integers over 2 * TolDen
Tolerated(amountOut, expected, slippage, attempts) ==
  amountOut * 2 * TolDen >=
    expected * (2 * TolDen -
                Min(2 * CapSlippage,
                    (IF slippage = NoNumber THEN DefaultSlippage ELSE slippage) * (2 + attempts)))

\* the k-th executeSwap call of the latest run of job j returned a successful
\* result with an amount within the tolerance of the attempt, measured
\* against the quote the call was made with
CallTolerated(j, k) ==
  /\ execLog[j][k].result.kind = "result" /\ execLog[j][k].result.success
  /\ execLog[j][k].result.amountOut # NoNumber
  /\ Tolerated(execLog[j][k].result.amountOut, execLog[j][k].quote.amountOut,
               jobs[j].slippage, AttemptsAtCheck(j))

\* the slippage check of the latest run of job j has been made and its
\* attempts counter has moved by at most the increment of the catch block
Checked(j) ==
  /\ jobs[j].pc \in {"fallbackSwap", "dbConfirmed", "incrementRetryCount"}
  /\ execLog[j] # <<>>
  /\ execLog[j][1].result.kind = "result" /\ execLog[j][1].result.success

\* C29: in every attempt the result of the selected DEX is accepted exactly
\* when its amount is at least quote * (1 - min(0.20, base * (1 + attempts *
\* 0.5))); when it is not and the fallback is called, the fallback result is
\* accepted exactly when it meets the same tolerance against the other quote.
C29_EffectiveTolerance ==
  \A j \in JobIds :
    Checked(j) =>
      /\ CallTolerated(j, 1) <=> (Len(execLog[j]) = 1 /\ jobs[j].outcome = execLog[j][1].result)
      /\ Len(execLog[j]) = 2 =>
           (CallTolerated(j, 2) <=> jobs[j].outcome = execLog[j][2].result)
      /\ (Len(execLog[j]) = 1 /\ ~CallTolerated(j, 1)) =>
           \/ jobs[j].pc = "fallbackSwap"
           \/ jobs[j].pc = "incrementRetryCount" /\ jobs[j].error = "Slippage tolerance exceeded"

\* a 15 % order in its second attempt: a fill of 790 was refused against the
\* capped tolerance of 20 %, on the selected DEX and on the other one
C29_CapApplied ==
  \E j \in JobIds :
    /\ jobs[j].slippage = 1500 /\ jobs[j].runs = 2 /\ jobs[j].pc = "incrementRetryCount"
    /\ Len(execLog[j]) = 2
    /\ execLog[j][1].result.amountOut = 790 /\ execLog[j][2].result.amountOut = 790

\* C30: for a job with an id of its own whose record exists in the active
\* store and whose failed attempts were all handled (no call of a catch
\* block threw), the persisted retry counter equals the attempts counter of
\* the job once the catch block has made its incrementRetryCount call, and
\* is one less between the increment of attempts and that call.
C30_RetryCountFollowsAttempts ==
  \A j \in JobIds :
    (GetOrder(jobs[j].orderId) # NoRow /\ DistinctIds /\ jobs[j].pc # "escaped") =>
      GetOrder(jobs[j].orderId).retryCount =
        jobs[j].attempts - (IF jobs[j].pc = "incrementRetryCount" THEN 1 ELSE 0)

\* the job waits for its third run after two handled failures, and its
\* record holds a count of 2
C30_CountedTwice ==
  /\ Len(jobs) = 1 /\ Waiting(1) /\ jobs[1].attempts = 2
  /\ GetOrder(jobs[1].orderId) # NoRow
  /\ GetOrder(jobs[1].orderId).retryCount = 2

\* the statuses that end a job
TerminalStatuses == {"confirmed", "failed"}

\* the record of the order of job j has the status of the update msg and,
\* for 'confirmed', the values the update carries
RecordAgrees(j, msg) ==
  LET row == GetOrder(jobs[j].orderId) IN
    /\ row.status = msg.status
    /\ msg.status = "confirmed" =>
         /\ row.txHash = msg.data.txHash
         /\ row.executedPrice = msg.data.executedPrice
         /\ row.amountOut = msg.data.amountOut

\* C31: when the update a job has published last is 'confirmed' or 'failed'
\* and the active store holds the record of the job (ids being distinct),
\* the record has that status and, for 'confirmed', the txHash,
\* executedPrice and amountOut of the update.
C31_PersistedBeforePublished ==
  \A j \in JobIds :
    ( /\ events[j] # <<>>
      /\ LastEvent(j).status \in TerminalStatuses
      /\ GetOrder(jobs[j].orderId) # NoRow
      /\ DistinctIds ) => RecordAgrees(j, LastEvent(j))

\* a listener threw while 'confirmed' was published to it: the database row
\* holds the confirmed result although the run goes on in the catch block
C31_ConfirmedThenThrew ==
  /\ Len(jobs) = 1 /\ enabled
  /\ jobs[1].pc = "incrementRetryCount" /\ jobs[1].error = "handler error"
  /\ events[1] # <<>> /\ LastEvent(1).status = "confirmed"
  /\ GetOrder(jobs[1].orderId).status = "confirmed"
  /\ GetOrder(jobs[1].orderId).txHash = "goodtx"

\* C32: no executeSwap call is made for a job after one of its executeSwap
\* calls has reported success with an amountOut that passed the slippage
\* check, whatever the store and the listeners do.
C32_NoExecuteAfterPass == \A j \in JobIds : calls[j].late = 0

\* the positions in a list of updates that hold a terminal status
TerminalAt(list) == {k \in 1..Len(list) : list[k].status \in TerminalStatuses}

\* C33: with distinct order ids, a store that answers every call and no
\* throwing handler, once a job has published 'confirmed' or 'failed' it
\* publishes nothing more, and a terminal update is always the last one a
\* job has published: no job publishes two terminal updates.
C33_TerminalIsLast ==
  [][ /\ \A j \in JobIds : TerminalAt(events[j]) # {} => events'[j] = events[j]
      /\ \A j \in DOMAIN events' : TerminalAt(events'[j]) \subseteq {Len(events'[j])}
    ]_vars

\* the first job has failed after two attempts and the second is confirmed
C33_OneFailedOneConfirmed ==
  /\ Len(jobs) = 2
  /\ jobs[1].pc = "failed" /\ jobs[1].attempts = 2 /\ LastEvent(1).status = "failed"
  /\ jobs[2].pc = "confirmed" /\ LastEvent(2).status = "confirmed"

\* C34: an exception thrown by a handler during a publish never becomes the
\* error of an attempt: no job is in its catch block, rescheduled, failed or
\* ended with a handler's exception as the error that was caught.
C34_HandlerErrorHarmless == \A j \in JobIds : jobs[j].error # "handler error"

\* C35: the in-flight set holds exactly the order ids of the runs that are
\* executing, and as many ids as there are such runs, whether or not the
\* enqueued ids repeat.
C35_RunningIsExecuting ==
  /\ running = {jobs[j].orderId : j \in ExecutingJobs}
  /\ Cardinality(running) = Cardinality(ExecutingJobs)

C37_RetryingMeansRetry ==
  \A j \in JobIds :
    \A k, m \in 1..Len(events[j]) :
      (k < m /\ events[j][k].status = "retrying") => events[j][m].status # "failed"

\* amountOut >= expected * (1 - base), base being the tolerance of the order
\* itself (0.01 when the order has none)
WithinOwnTolerance(amountOut, expected, slippage) ==
  amountOut * TolDen >= expected * (TolDen - BaseSlippage(slippage))

\* C38: in every attempt, a successful result of the selected DEX whose
\* amount is within the order's own slippage tolerance of the quote passes
\* the check: the tolerance enforced is never stricter than the order's own.
C38_NeverStricter ==
  \A j \in JobIds :
    ( /\ Checked(j)
      /\ execLog[j][1].result.amountOut # NoNumber
      /\ WithinOwnTolerance(execLog[j][1].result.amountOut, execLog[j][1].quote.amountOut,
                            jobs[j].slippage) )
    => (Len(execLog[j]) = 1 /\ jobs[j].outcome = execLog[j][1].result)

\* C39: once close() has returned, no step dispatches a pending job, no
\* backoff timer puts a job back on the pending list, and no job publishes
\* a status update.
C39_ClosedIsQuiet ==
  [][closed =>
       /\ ~DispatchStep
       /\ ~TimerStep
       /\ \A j \in JobIds : events'[j] = events[j]]_vars

====
